---------------------------- MODULE Spec2Model ----------------------------
(***************************************************************************)
(* The rule-driven opportunity-inference engine of                         *)
(* src/src/agentic_graph_middleware/schemas/kuzu_sow_schema.py             *)
(* (class KuzuSOWGraphEngine) over an abstract graph store.                *)
(*                                                                         *)
(* Numbers.  confidence_weight and success_rate are carried in hundredths  *)
(* (0.8 is 80), confidence scores in ten-thousandths (0.624 is 6240),      *)
(* business values in hundredths of a unit (936.0 is 93600).  The          *)
(* arithmetic is exact; binary floating point rounding is not modelled.    *)
(*                                                                         *)
(* Text.  Stored strings are TLA+ strings; Chars gives the characters of   *)
(* each string the model uses, and lower(), split() and the "in" test on   *)
(* strings are computed on those characters.                               *)
(*                                                                         *)
(* Store.  Node tables with PRIMARY KEY(id) and the IMPLIES relationship   *)
(* table are bags of rows: CREATE adds a row, and only the primary-key     *)
(* test of CreateNode keeps ids unique.  Any statement sent to the store   *)
(* may fail (the store is unavailable or rejects it).                      *)
(***************************************************************************)
EXTENDS Integers, Sequences, FiniteSets, Bags, TLC

\* Bound of the model: the clock read by datetime.now() runs 0..MaxClock.
MaxClock == 1

\* Python's None (a NULL column).
None == "None"

---------------------------------------------------------------------------
\* Text

Chars(s) ==
  CASE s = "Implement supplier tracking system for automotive parts" ->
         <<"I","m","p","l","e","m","e","n","t"," ","s","u","p","p","l","i","e","r"," ","t","r","a","c","k","i","n","g"," ","s","y","s","t","e","m"," ","f","o","r"," ","a","u","t","o","m","o","t","i","v","e"," ","p","a","r","t","s">>
    [] s = "Real-time data_collection integration" ->
         <<"R","e","a","l","-","t","i","m","e"," ","d","a","t","a","_","c","o","l","l","e","c","t","i","o","n"," ","i","n","t","e","g","r","a","t","i","o","n">>
    [] s = "data_collection" ->
         <<"d","a","t","a","_","c","o","l","l","e","c","t","i","o","n">>
    [] s = "supplier_tracking" ->
         <<"s","u","p","p","l","i","e","r","_","t","r","a","c","k","i","n","g">>
    [] s = "customer_data" ->
         <<"c","u","s","t","o","m","e","r","_","d","a","t","a">>
    [] s = "reporting_automation" ->
         <<"r","e","p","o","r","t","i","n","g","_","a","u","t","o","m","a","t","i","o","n">>
    [] s = "regulatory_compliance" ->
         <<"r","e","g","u","l","a","t","o","r","y","_","c","o","m","p","l","i","a","n","c","e">>
    [] s = "supplier tracking" ->
         <<"s","u","p","p","l","i","e","r"," ","t","r","a","c","k","i","n","g">>
    [] s = "Data quality assessment and profiling capabilities" ->
         <<"D","a","t","a"," ","q","u","a","l","i","t","y"," ","a","s","s","e","s","s","m","e","n","t"," ","a","n","d"," ","p","r","o","f","i","l","i","n","g"," ","c","a","p","a","b","i","l","i","t","i","e","s">>
    [] s = "Supply chain risk analytics and predictive monitoring" ->
         <<"S","u","p","p","l","y"," ","c","h","a","i","n"," ","r","i","s","k"," ","a","n","a","l","y","t","i","c","s"," ","a","n","d"," ","p","r","e","d","i","c","t","i","v","e"," ","m","o","n","i","t","o","r","i","n","g">>
    [] s = "Customer segmentation and behavioral analytics" ->
         <<"C","u","s","t","o","m","e","r"," ","s","e","g","m","e","n","t","a","t","i","o","n"," ","a","n","d"," ","b","e","h","a","v","i","o","r","a","l"," ","a","n","a","l","y","t","i","c","s">>
    [] s = "Data governance framework and metadata management" ->
         <<"D","a","t","a"," ","g","o","v","e","r","n","a","n","c","e"," ","f","r","a","m","e","w","o","r","k"," ","a","n","d"," ","m","e","t","a","d","a","t","a"," ","m","a","n","a","g","e","m","e","n","t">>
    [] s = "Automated compliance monitoring and audit trails" ->
         <<"A","u","t","o","m","a","t","e","d"," ","c","o","m","p","l","i","a","n","c","e"," ","m","o","n","i","t","o","r","i","n","g"," ","a","n","d"," ","a","u","d","i","t"," ","t","r","a","i","l","s">>
    [] s = "Supplier scorecard automation" ->
         <<"S","u","p","p","l","i","e","r"," ","s","c","o","r","e","c","a","r","d"," ","a","u","t","o","m","a","t","i","o","n">>
    [] s = "quality" ->
         <<"q","u","a","l","i","t","y">>
    [] s = "risk" ->
         <<"r","i","s","k">>
    [] s = "segmentation" ->
         <<"s","e","g","m","e","n","t","a","t","i","o","n">>
    [] s = "compliance" ->
         <<"c","o","m","p","l","i","a","n","c","e">>
    [] s = "automation" ->
         <<"a","u","t","o","m","a","t","i","o","n">>
    [] s = "machine learning" ->
         <<"m","a","c","h","i","n","e"," ","l","e","a","r","n","i","n","g">>
    [] s = "real-time" ->
         <<"r","e","a","l","-","t","i","m","e">>
    [] s = "integration" ->
         <<"i","n","t","e","g","r","a","t","i","o","n">>
    [] s = "correlation" ->
         <<"c","o","r","r","e","l","a","t","i","o","n">>
    [] s = "reporting" ->
         <<"r","e","p","o","r","t","i","n","g">>
    [] s = "Reporting" ->
         <<"R","e","p","o","r","t","i","n","g">>
    [] s = "pre-reportings" ->
         <<"p","r","e","-","r","e","p","o","r","t","i","n","g","s">>
    [] s = "AUTOMATION" ->
         <<"A","U","T","O","M","A","T","I","O","N">>
    [] s = "pre-automations" ->
         <<"p","r","e","-","a","u","t","o","m","a","t","i","o","n","s">>
    [] s = "Machine Learning" ->
         <<"M","a","c","h","i","n","e"," ","L","e","a","r","n","i","n","g">>
    [] s = "pre-machine learnings" ->
         <<"p","r","e","-","m","a","c","h","i","n","e"," ","l","e","a","r","n","i","n","g","s">>
    [] s = "automation machine learning" ->
         <<"a","u","t","o","m","a","t","i","o","n"," ","m","a","c","h","i","n","e"," ","l","e","a","r","n","i","n","g">>
    [] s = "AUTOMATION MACHINE LEARNING" ->
         <<"A","U","T","O","M","A","T","I","O","N"," ","M","A","C","H","I","N","E"," ","L","E","A","R","N","I","N","G">>
    [] s = "pre-automation machine learnings" ->
         <<"p","r","e","-","a","u","t","o","m","a","t","i","o","n"," ","m","a","c","h","i","n","e"," ","l","e","a","r","n","i","n","g","s">>
    [] s = "Real-Time" ->
         <<"R","e","a","l","-","T","i","m","e">>
    [] s = "pre-real-times" ->
         <<"p","r","e","-","r","e","a","l","-","t","i","m","e","s">>
    [] s = "automation real-time" ->
         <<"a","u","t","o","m","a","t","i","o","n"," ","r","e","a","l","-","t","i","m","e">>
    [] s = "AUTOMATION REAL-TIME" ->
         <<"A","U","T","O","M","A","T","I","O","N"," ","R","E","A","L","-","T","I","M","E">>
    [] s = "pre-automation real-times" ->
         <<"p","r","e","-","a","u","t","o","m","a","t","i","o","n"," ","r","e","a","l","-","t","i","m","e","s">>
    [] s = "machine learning real-time" ->
         <<"m","a","c","h","i","n","e"," ","l","e","a","r","n","i","n","g"," ","r","e","a","l","-","t","i","m","e">>
    [] s = "Machine Learning Real-Time" ->
         <<"M","a","c","h","i","n","e"," ","L","e","a","r","n","i","n","g"," ","R","e","a","l","-","T","i","m","e">>
    [] s = "pre-machine learning real-times" ->
         <<"p","r","e","-","m","a","c","h","i","n","e"," ","l","e","a","r","n","i","n","g"," ","r","e","a","l","-","t","i","m","e","s">>
    [] s = "automation machine learning real-time" ->
         <<"a","u","t","o","m","a","t","i","o","n"," ","m","a","c","h","i","n","e"," ","l","e","a","r","n","i","n","g"," ","r","e","a","l","-","t","i","m","e">>
    [] s = "AUTOMATION MACHINE LEARNING REAL-TIME" ->
         <<"A","U","T","O","M","A","T","I","O","N"," ","M","A","C","H","I","N","E"," ","L","E","A","R","N","I","N","G"," ","R","E","A","L","-","T","I","M","E">>
    [] s = "pre-automation machine learning real-times" ->
         <<"p","r","e","-","a","u","t","o","m","a","t","i","o","n"," ","m","a","c","h","i","n","e"," ","l","e","a","r","n","i","n","g"," ","r","e","a","l","-","t","i","m","e","s">>
    [] s = "track suppliers" ->
         <<"t","r","a","c","k"," ","s","u","p","p","l","i","e","r","s">>
    [] s = "parts supplier" ->
         <<"p","a","r","t","s"," ","s","u","p","p","l","i","e","r">>

UpperCase == <<"A","B","C","D","E","F","G","H","I","J","K","L","M",
               "N","O","P","Q","R","S","T","U","V","W","X","Y","Z">>
LowerCase == <<"a","b","c","d","e","f","g","h","i","j","k","l","m",
               "n","o","p","q","r","s","t","u","v","w","x","y","z">>

\* str.lower() on one character
LowerChar(c) ==
  IF \E i \in 1..26 : UpperCase[i] = c
    THEN LowerCase[CHOOSE i \in 1..26 : UpperCase[i] = c]
    ELSE c

\* str.lower()
Lower(cs) == [i \in 1..Len(cs) |-> LowerChar(cs[i])]

\* x in y, for strings: x occurs in y as a run of consecutive characters
Contains(y, x) ==
  \E i \in 0..(Len(y) - Len(x)) : SubSeq(y, i + 1, i + Len(x)) = x

Whitespace == {" "}

\* str.split(): the maximal runs of non-whitespace characters, in order
RECURSIVE SplitFrom(_, _, _)
SplitFrom(cs, i, word) ==
  IF i > Len(cs)
    THEN IF word = <<>> THEN <<>> ELSE <<word>>
    ELSE IF cs[i] \in Whitespace
      THEN (IF word = <<>> THEN <<>> ELSE <<word>>) \o SplitFrom(cs, i + 1, <<>>)
      ELSE SplitFrom(cs, i + 1, Append(word, cs[i]))

Split(cs) == SplitFrom(cs, 1, <<>>)

---------------------------------------------------------------------------
\* Scoring and estimation (pure functions of KuzuSOWGraphEngine)

\* _infer_complexity returning options[0] in place of options[-1]
_infer_complexity_first(req_complexity, confidence) ==
  LET options ==
        CASE req_complexity = "low" ->
               IF confidence > 80 THEN <<"low", "medium">> ELSE <<"low">>
          [] req_complexity = "medium" ->
               IF confidence > 70 THEN <<"low", "medium", "high">> ELSE <<"medium">>
          [] req_complexity = "high" ->
               IF confidence > 80 THEN <<"medium", "high", "very_high">> ELSE <<"high">>
          [] req_complexity = "very_high" -> <<"high", "very_high">>
          [] OTHER -> <<"medium">>
  IN  options[1]

\* _infer_complexity(req_complexity, confidence); confidence in hundredths
_infer_complexity(req_complexity, confidence) ==
  LET options ==
        CASE req_complexity = "low" ->
               IF confidence > 80 THEN <<"low", "medium">> ELSE <<"low">>
          [] req_complexity = "medium" ->
               IF confidence > 70 THEN <<"low", "medium", "high">> ELSE <<"medium">>
          [] req_complexity = "high" ->
               IF confidence > 80 THEN <<"medium", "high", "very_high">> ELSE <<"high">>
          [] req_complexity = "very_high" -> <<"high", "very_high">>
          [] OTHER -> <<"medium">>
  IN  IF Len(options) > 1 THEN options[Len(options)] ELSE options[1]

\* round(n / d) for n >= 0, d > 0
RoundDiv(n, d) == (2 * n + d) \div (2 * d)

\* _calculate_business_value(confidence, success_rate): round(1000 * (c * s * 1.5), 2),
\* c and s in hundredths, the value in hundredths
_calculate_business_value(confidence, success_rate) ==
  LET base_value == 1000
  IN  RoundDiv(base_value * confidence * success_rate * 15, 1000)

\* domain_synergies of _calculate_cross_domain_value, in tenths; .get(..., 1.1)
domain_synergies(source_domain, target_domain) ==
  CASE source_domain = "finance" /\ target_domain = "healthcare" -> 14
    [] source_domain = "manufacturing" /\ target_domain = "retail" -> 13
    [] source_domain = "healthcare" /\ target_domain = "insurance" -> 15
    [] source_domain = "retail" /\ target_domain = "logistics" -> 12
    [] OTHER -> 11

\* _calculate_cross_domain_value(source_domain, target_domain): round(1200 * synergy, 2)
_calculate_cross_domain_value(source_domain, target_domain) ==
  LET base_value == 1200
  IN  RoundDiv(base_value * domain_synergies(source_domain, target_domain) * 100, 10)

\* _suggest_implementation(description)
_suggest_implementation(description) ==
  LET d == Lower(Chars(description))
  IN  CASE Contains(d, Chars("quality")) ->
             "Implement data profiling tools with automated quality checks and remediation workflows"
        [] ~Contains(d, Chars("quality")) /\ Contains(d, Chars("risk")) ->
             "Deploy predictive analytics models with real-time monitoring dashboards"
        [] ~Contains(d, Chars("quality")) /\ ~Contains(d, Chars("risk"))
             /\ Contains(d, Chars("segmentation")) ->
             "Develop machine learning clustering models with behavioral analysis"
        [] ~Contains(d, Chars("quality")) /\ ~Contains(d, Chars("risk"))
             /\ ~Contains(d, Chars("segmentation")) /\ Contains(d, Chars("compliance")) ->
             "Build automated compliance monitoring with audit trail management"
        [] OTHER ->
             "Implement analytics platform with custom dashboards and reporting capabilities"

\* base_hours with the entries of low and high exchanged
base_hours_exchanged(complexity) ==
  CASE complexity = "low" -> 320
    [] complexity = "medium" -> 160
    [] complexity = "high" -> 80
    [] complexity = "very_high" -> 480
    [] OTHER -> 160

\* base_hours of _estimate_hours; .get(complexity, 160)
base_hours(complexity) ==
  CASE complexity = "low" -> 80
    [] complexity = "medium" -> 160
    [] complexity = "high" -> 320
    [] complexity = "very_high" -> 480
    [] OTHER -> 160

\* _estimate_hours with its three tests chained by elif: the first surcharge that
\* applies is the only one
_estimate_hours_exclusive(description, complexity) ==
  LET d == Lower(Chars(description))
      m == CASE Contains(d, Chars("automation")) -> 13
             [] ~Contains(d, Chars("automation"))
                  /\ Contains(d, Chars("machine learning")) -> 14
             [] ~Contains(d, Chars("automation"))
                  /\ ~Contains(d, Chars("machine learning"))
                  /\ Contains(d, Chars("real-time")) -> 12
             [] OTHER -> 10
  IN  (base_hours(complexity) * m) \div 10

\* _estimate_hours(description, complexity): the surcharges in tenths, int() truncates
_estimate_hours(description, complexity) ==
  LET d  == Lower(Chars(description))
      m1 == IF Contains(d, Chars("automation")) THEN 13 ELSE 10
      m2 == IF Contains(d, Chars("machine learning")) THEN 14 ELSE 10
      m3 == IF Contains(d, Chars("real-time")) THEN 12 ELSE 10
  IN  (base_hours(complexity) * m1 * m2 * m3) \div 1000

\* _estimate_cross_domain_hours(description); the caller passes the lowered description
_estimate_cross_domain_hours(description) ==
  LET d  == Lower(description)
      m1 == IF Contains(d, Chars("integration")) THEN 13 ELSE 10
      m2 == IF Contains(d, Chars("correlation")) THEN 12 ELSE 10
  IN  (240 * m1 * m2) \div 100

---------------------------------------------------------------------------
\* Data

\* The rules _create_inference_rules loads at construction
DefaultRules ==
  { [id |-> "RULE_001", rule_type |-> "implication",
     condition_pattern |-> "data_collection",
     conclusion_template |-> "Data quality assessment and profiling capabilities",
     confidence_weight |-> 90,
     domain_applicability |-> <<"finance", "healthcare", "manufacturing", "retail">>,
     success_rate |-> 85],
    [id |-> "RULE_002", rule_type |-> "sequence",
     condition_pattern |-> "supplier_tracking",
     conclusion_template |-> "Supply chain risk analytics and predictive monitoring",
     confidence_weight |-> 80,
     domain_applicability |-> <<"manufacturing", "retail", "logistics">>,
     success_rate |-> 78],
    [id |-> "RULE_003", rule_type |-> "correlation",
     condition_pattern |-> "customer_data",
     conclusion_template |-> "Customer segmentation and behavioral analytics",
     confidence_weight |-> 85,
     domain_applicability |-> <<"retail", "e-commerce", "financial_services">>,
     success_rate |-> 82],
    [id |-> "RULE_004", rule_type |-> "prerequisite",
     condition_pattern |-> "reporting_automation",
     conclusion_template |-> "Data governance framework and metadata management",
     confidence_weight |-> 75,
     domain_applicability |-> <<"all">>,
     success_rate |-> 70],
    [id |-> "RULE_005", rule_type |-> "implication",
     condition_pattern |-> "regulatory_compliance",
     conclusion_template |-> "Automated compliance monitoring and audit trails",
     confidence_weight |-> 90,
     domain_applicability |-> <<"finance", "healthcare", "insurance">>,
     success_rate |-> 88] }

\* Rules a caller adds with add_inference_rule: one that ties RULE_002 on both sort
\* keys and matches REQ_001 by phrase, one stored with a NULL condition pattern
\* (add_inference_rule validates nothing).
ExtraRules ==
  { [id |-> "RULE_101", rule_type |-> "sequence",
     condition_pattern |-> "supplier tracking",
     conclusion_template |-> "Supplier scorecard automation",
     confidence_weight |-> 80,
     domain_applicability |-> <<"manufacturing">>,
     success_rate |-> 78],
    [id |-> "RULE_102", rule_type |-> "implication",
     condition_pattern |-> None,
     conclusion_template |-> "Data governance framework and metadata management",
     confidence_weight |-> 95,
     domain_applicability |-> <<"retail">>,
     success_rate |-> 90] }

\* Rules outside what the catalog is meant to hold: a confidence weight of 1.5 and a
\* success rate of -0.1, and an empty list of domains
UncheckedRules ==
  { [id |-> "RULE_103", rule_type |-> "implication",
     condition_pattern |-> "supplier tracking",
     conclusion_template |-> "Supplier scorecard automation",
     confidence_weight |-> 150,
     domain_applicability |-> <<"manufacturing">>,
     success_rate |-> -10],
    [id |-> "RULE_104", rule_type |-> "correlation",
     condition_pattern |-> "customer_data",
     conclusion_template |-> "Customer segmentation and behavioral analytics",
     confidence_weight |-> 85,
     domain_applicability |-> <<>>,
     success_rate |-> 82] }

\* Rules a store may hold beside the default ones: RULE_105 lists its domains and has
\* a success rate of 0.5, and its pattern has a word ("track") that occurs in REQ_001's
\* description only inside "tracking"; RULE_106 has its two words in that description,
\* apart from each other; RULE_107 lists "all" alone and has a success rate of 0.6
ProbeRules ==
  { [id |-> "RULE_105", rule_type |-> "sequence",
     condition_pattern |-> "track suppliers",
     conclusion_template |-> "automation real-time",
     confidence_weight |-> 70,
     domain_applicability |-> <<"manufacturing", "retail">>,
     success_rate |-> 50],
    [id |-> "RULE_106", rule_type |-> "correlation",
     condition_pattern |-> "parts supplier",
     conclusion_template |-> "machine learning",
     confidence_weight |-> 92,
     domain_applicability |-> <<"manufacturing">>,
     success_rate |-> 80],
    [id |-> "RULE_107", rule_type |-> "prerequisite",
     condition_pattern |-> "supplier tracking",
     conclusion_template |-> "reporting",
     confidence_weight |-> 60,
     domain_applicability |-> <<"all">>,
     success_rate |-> 60] }

RuleInputs ==
  ExtraRules \cup UncheckedRules \cup {r \in DefaultRules : r.id = "RULE_001"}

\* Requirements a caller adds: REQ_001 of the module's example, and a second one
RequirementInputs ==
  { [id |-> "REQ_001",
     description |-> "Implement supplier tracking system for automotive parts",
     priority |-> 1, domain |-> "manufacturing", complexity |-> "high",
     estimated_hours |-> 200, business_value |-> 500000],
    [id |-> "REQ_002",
     description |-> "Real-time data_collection integration",
     priority |-> 2, domain |-> "retail", complexity |-> "medium",
     estimated_hours |-> None, business_value |-> None] }

RequirementIds == {r.id : r \in RequirementInputs} \cup {"REQ_404"}

\* Entities a caller adds: ENT_001 of the module's example, and two more
EntityInputs ==
  { [id |-> "ENT_001", name |-> "AutoParts Manufacturing Corp",
     entity_type |-> "company", industry |-> "manufacturing",
     maturity_level |-> "enterprise",
     technology_stack |-> <<"SAP", "Oracle", "AWS">>, data_maturity |-> "managed"],
    [id |-> "ENT_002", name |-> "Retail Group",
     entity_type |-> "company", industry |-> "retail",
     maturity_level |-> "enterprise",
     technology_stack |-> <<"Snowflake", "dbt", "Kafka", "Spark">>,
     data_maturity |-> "optimized"],
    [id |-> "ENT_003", name |-> "Bank",
     entity_type |-> "company", industry |-> "finance",
     maturity_level |-> "mature",
     technology_stack |-> <<>>, data_maturity |-> "managed"] }

---------------------------------------------------------------------------
\* State

VARIABLES
  db,    \* the graph store: one bag of rows per node table and for IMPLIES
  now,   \* the value datetime.now() returns
  ret    \* the last call: what it was, what it returned, logged and attempted

vars == <<db, now, ret>>

Tables == {"BusinessRequirement", "AnalyticalOpportunity", "DomainEntity",
           "InferenceRule", "IMPLIES"}

\* The rows of a table, and how many rows of it carry an id
Rows(d, table) == BagToSet(d[table])
RowsWithId(d, table, id) == {r \in Rows(d, table) : r.id = id}

RECURSIVE SumCopies(_, _)
SumCopies(bag, rows) ==
  IF rows = {} THEN 0
  ELSE LET r == CHOOSE x \in rows : TRUE
       IN  CopiesIn(r, bag) + SumCopies(bag, rows \ {r})

CountId(d, table, id) == SumCopies(d[table], RowsWithId(d, table, id))

\* CREATE on a table without the primary key: the row is added whatever is stored
CreateNodeUnkeyed(d, table, row, fail) ==
  IF fail
    THEN [raised |-> "StoreError", db |-> d]
    ELSE [raised |-> None,
          db |-> [d EXCEPT ![table] = @ (+) SetToBag({row})]]

\* MERGE ... SET in place of CREATE: the row takes the place of the one stored
CreateNodeReplace(d, table, row, fail) ==
  IF fail
    THEN [raised |-> "StoreError", db |-> d]
    ELSE [raised |-> None,
          db |-> [d EXCEPT ![table] =
                    SetToBag({r \in BagToSet(@) : r.id # row.id} \cup {row})]]

\* CREATE (:Table {...}) on a table declared PRIMARY KEY(id): the store may fail, a
\* row with the id makes the statement raise, otherwise the row is added
CreateNode(d, table, row, fail) ==
  IF fail
    THEN [raised |-> "StoreError", db |-> d]
    ELSE IF RowsWithId(d, table, row.id) # {}
      THEN [raised |-> "PrimaryKeyError", db |-> d]
      ELSE [raised |-> None,
            db |-> [d EXCEPT ![table] = @ (+) SetToBag({row})]]

\* The relationship statement with SET req.updated_at = $created_at after its CREATE
CreateImpliesTouching(d, edge, fail) ==
  IF fail
    THEN [raised |-> "StoreError", db |-> d]
    ELSE LET n == CountId(d, "BusinessRequirement", edge.from)
                  * CountId(d, "AnalyticalOpportunity", edge.to)
         IN  [raised |-> None,
              db |-> IF n = 0 THEN d
                     ELSE [d EXCEPT
                             !["IMPLIES"] = @ (+) [e \in {edge} |-> n],
                             !["BusinessRequirement"] =
                               SetToBag({IF r.id = edge.from
                                           THEN [r EXCEPT !.updated_at = edge.created_at]
                                           ELSE r : r \in BagToSet(@)})]]

\* MATCH (req:BusinessRequirement {id}) MATCH (opp:AnalyticalOpportunity {id})
\* CREATE (req)-[:IMPLIES {...}]->(opp): one relationship per matched pair, none
\* (and no error) when either MATCH finds nothing
CreateImplies(d, edge, fail) ==
  IF fail
    THEN [raised |-> "StoreError", db |-> d]
    ELSE LET n == CountId(d, "BusinessRequirement", edge.from)
                  * CountId(d, "AnalyticalOpportunity", edge.to)
         IN  [raised |-> None,
              db |-> IF n = 0 THEN d
                     ELSE [d EXCEPT !["IMPLIES"] =
                             @ (+) [e \in {edge} |-> n]]]

\* The record of a call: its name and argument, what it returned (ok for the add_
\* methods, value for a discovery), the exception it raised to its caller, and what it
\* logged, tried to write, visited and reached
Call(op, arg, ok, value, log, attempts, visited, cross_ran) ==
  [op |-> op, arg |-> arg, target |-> <<>>, ok |-> ok, value |-> value,
   raised |-> None, log |-> log, attempts |-> attempts, visited |-> visited,
   cross_ran |-> cross_ran]

StoredRule(rule, t) ==
  [id |-> rule.id, rule_type |-> rule.rule_type,
   condition_pattern |-> rule.condition_pattern,
   conclusion_template |-> rule.conclusion_template,
   confidence_weight |-> rule.confidence_weight,
   domain_applicability |-> rule.domain_applicability,
   success_rate |-> rule.success_rate,
   usage_count |-> 0, last_applied |-> t]

\* After KuzuSOWGraphEngine(): the schema is created and the default rules are loaded
Init ==
  /\ db = [t \in Tables |->
             IF t = "InferenceRule"
               THEN SetToBag({StoredRule(r, 0) : r \in DefaultRules})
               ELSE EmptyBag]
  /\ now = 0
  /\ ret = Call("init", None, TRUE, <<>>, <<>>, <<>>, <<>>, FALSE)

\* Time passes between calls
Tick ==
  /\ now < MaxClock
  /\ now' = now + 1
  /\ UNCHANGED <<db, ret>>

\* The row CREATE (:BusinessRequirement {...}) writes
RequirementRow(requirement, t) ==
  [id |-> requirement.id, description |-> requirement.description,
   priority |-> requirement.priority, domain |-> requirement.domain,
   complexity |-> requirement.complexity,
   estimated_hours |-> requirement.estimated_hours,
   business_value |-> requirement.business_value,
   created_at |-> t, updated_at |-> t]

\* add_business_requirement(requirement)
add_business_requirement(requirement, fail) ==
  LET res == CreateNode(db, "BusinessRequirement", RequirementRow(requirement, now), fail)
  IN  /\ db' = res.db
      /\ ret' = IF res.raised = None
                  THEN Call("add_business_requirement", requirement.id, TRUE, <<>>,
                            <<>>, <<>>, <<>>, FALSE)
                  ELSE Call("add_business_requirement", requirement.id, FALSE, <<>>,
                            <<<<"error", "add_business_requirement", requirement.id>>>>,
                            <<>>, <<>>, FALSE)
      /\ UNCHANGED now

\* add_domain_entity(entity)
add_domain_entity(entity, fail) ==
  LET res == CreateNode(db, "DomainEntity", entity, fail)
  IN  /\ db' = res.db
      /\ ret' = IF res.raised = None
                  THEN Call("add_domain_entity", entity.id, TRUE, <<>>,
                            <<>>, <<>>, <<>>, FALSE)
                  ELSE Call("add_domain_entity", entity.id, FALSE, <<>>,
                            <<<<"error", "add_domain_entity", entity.id>>>>,
                            <<>>, <<>>, FALSE)
      /\ UNCHANGED now

\* add_inference_rule(rule)
add_inference_rule(rule, fail) ==
  LET res == CreateNode(db, "InferenceRule", StoredRule(rule, now), fail)
  IN  /\ db' = res.db
      /\ ret' = IF res.raised = None
                  THEN Call("add_inference_rule", rule.id, TRUE, <<>>,
                            <<>>, <<>>, <<>>, FALSE)
                  ELSE Call("add_inference_rule", rule.id, FALSE, <<>>,
                            <<<<"error", "add_inference_rule", rule.id>>>>,
                            <<>>, <<>>, FALSE)
      /\ UNCHANGED now

---------------------------------------------------------------------------
\* Queries of the discovery

\* x IN list
InList(x, list) == \E i \in 1..Len(list) : list[i] = x

\* The sequences a result set can come back in: every arrangement of n rows of S
RECURSIVE Picks(_, _)
Picks(S, n) ==
  IF n = 0 \/ S = {} THEN {<<>>}
  ELSE UNION {{<<e>> \o rest : rest \in Picks(S \ {e}, n - 1)} : e \in S}

\* ORDER BY rule.confidence_weight DESC, rule.success_rate DESC: a comes before b
SortsBefore(a, b) ==
  \/ a.confidence_weight > b.confidence_weight
  \/ a.confidence_weight = b.confidence_weight /\ a.success_rate > b.success_rate

\* Every arrangement of S the ORDER BY allows (rows equal on both keys in any order)
RECURSIVE Ordered(_)
Ordered(S) ==
  IF S = {} THEN {<<>>}
  ELSE UNION {{<<r>> \o rest : rest \in Ordered(S \ {r})} :
              r \in {x \in S : \A y \in S : ~SortsBefore(y, x)}}

\* The WHERE clause read as (a OR b) AND c
InferenceRowsOverThreshold(d, req_domain) ==
  Ordered({rule \in Rows(d, "InferenceRule") :
             /\ \/ InList(req_domain, rule.domain_applicability)
                \/ InList("all", rule.domain_applicability)
             /\ rule.success_rate > 60})

\* inference_query: WHERE a OR b AND c is a OR (b AND c)
InferenceRows(d, req_domain) ==
  Ordered({rule \in Rows(d, "InferenceRule") :
             \/ InList(req_domain, rule.domain_applicability)
             \/ InList("all", rule.domain_applicability) /\ rule.success_rate > 60})

\* LIMIT 5 of cross_domain_query
CrossDomainLimit == 5

Min(a, b) == IF a < b THEN a ELSE b

\* The query without its WHERE clause
CrossDomainRowsOfAll(d, req_domain) ==
  LET matching == Rows(d, "DomainEntity")
  IN  Picks(matching, Min(CrossDomainLimit, Cardinality(matching)))

\* cross_domain_query: no ORDER BY, so any LIMIT rows of the matching ones, in any order
CrossDomainRows(d, req_domain) ==
  LET matching == {entity \in Rows(d, "DomainEntity") :
                     /\ entity.industry # req_domain
                     /\ entity.maturity_level \in {"mature", "enterprise"}
                     /\ entity.data_maturity \in {"managed", "optimized"}}
  IN  Picks(matching, Min(CrossDomainLimit, Cardinality(matching)))

\* A QueryResult: get_next() returns the next row and moves past it, and raises
\* when no row is left
QueryResult(rows) == [rows |-> rows, pos |-> 0]

get_next(result) ==
  IF result.pos < Len(result.rows)
    THEN [raised |-> None, row |-> result.rows[result.pos + 1],
          result |-> [result EXCEPT !.pos = @ + 1]]
    ELSE [raised |-> "RuntimeError", row |-> <<>>, result |-> result]

\* req_query: RETURN req.description, req.domain, req.complexity
ReqRows(d, requirement_id) ==
  LET found == RowsWithId(d, "BusinessRequirement", requirement_id)
  IN  {[i \in 1..Len(s) |-> <<s[i].description, s[i].domain, s[i].complexity>>] :
         s \in Picks(found, Cardinality(found))}

---------------------------------------------------------------------------
\* Store failures: a plan is the set of statements of one call that the store fails

\* Bound of the model: at most MaxFailures statements of one call fail
MaxFailures == 1

RECURSIVE UpTo(_, _)
UpTo(S, n) ==
  IF n = 0 THEN {{}}
  ELSE LET P == UpTo(S, n - 1) IN P \cup {F \cup {s} : F \in P, s \in S}

Query(name) == <<name, <<>>>>
Write(kind, id) == <<kind, id>>

\* An id made of the tag and the counter alone, the same for every requirement
OppIdOfCounter(requirement_id, tag, counter) == <<"", tag, counter>>

\* An id with the tag of the rule loop, whichever loop asks for it
OppIdUntagged(requirement_id, tag, counter) == <<requirement_id, "OPP", counter>>

\* f"{requirement_id}_OPP_{counter:03d}" and f"{req_id}_CROSS_{counter:03d}": the
\* requirement id, the tag and the counter (the zero-padded decimal of a counter
\* determines it)
OppId(requirement_id, tag, counter) == <<requirement_id, tag, counter>>

---------------------------------------------------------------------------
\* Discovery

\* A text put together by an f-string is the tuple of its parts, and a text taken as
\* it is the tuple of that one string.

\* The row without the literal of line 569: status is left NULL
OpportunityRowNoStatus(opportunity) ==
  [id |-> opportunity.id, description |-> opportunity.description,
   complexity |-> opportunity.complexity,
   business_value |-> opportunity.business_value,
   confidence_score |-> opportunity.confidence_score,
   discovery_method |-> opportunity.discovery_method,
   implementation_approach |-> opportunity.implementation_approach,
   estimated_hours |-> opportunity.estimated_hours,
   roi_projection |-> opportunity.roi_projection,
   created_at |-> opportunity.created_at,
   status |-> None]

\* The row CREATE (:AnalyticalOpportunity {...}) writes
OpportunityRow(opportunity) ==
  [id |-> opportunity.id, description |-> opportunity.description,
   complexity |-> opportunity.complexity,
   business_value |-> opportunity.business_value,
   confidence_score |-> opportunity.confidence_score,
   discovery_method |-> opportunity.discovery_method,
   implementation_approach |-> opportunity.implementation_approach,
   estimated_hours |-> opportunity.estimated_hours,
   roi_projection |-> opportunity.roi_projection,
   created_at |-> opportunity.created_at,
   status |-> "discovered"]

\* The relationship CREATE (req)-[:IMPLIES {...}]->(opp) writes
ImpliesRow(opportunity, requirement_id, source_id, t) ==
  [from |-> requirement_id, to |-> opportunity.id,
   confidence |-> opportunity.confidence_score,
   reasoning |-> <<"Discovered via", opportunity.discovery_method>>,
   inference_path |-> <<requirement_id, source_id, opportunity.id>>,
   created_at |-> t]

\* _add_discovered_opportunity(opportunity, requirement_id, source_id): the node, then
\* the relationship; whatever either statement raises is logged and not raised again.
\* st is the call so far: the store, the log and the write attempts.
_add_discovered_opportunity(st, opportunity, requirement_id, source_id, F, t) ==
  LET before == RowsWithId(st.db, "AnalyticalOpportunity", opportunity.id)
      node == CreateNode(st.db, "AnalyticalOpportunity", OpportunityRow(opportunity),
                         Write("node", opportunity.id) \in F)
      edge == CreateImplies(node.db, ImpliesRow(opportunity, requirement_id, source_id, t),
                            Write("edge", opportunity.id) \in F)
      failed == <<"error", "_add_discovered_opportunity", opportunity.id>>
  IN  IF node.raised # None
        THEN [st EXCEPT
                !.log = Append(@, failed),
                !.attempts = Append(@, [id |-> opportunity.id, node |-> node.raised,
                                        edge |-> "skipped", before |-> before])]
        ELSE IF edge.raised # None
          THEN [st EXCEPT
                  !.db = node.db,
                  !.log = Append(@, failed),
                  !.attempts = Append(@, [id |-> opportunity.id, node |-> "created",
                                          edge |-> edge.raised, before |-> before])]
          ELSE [st EXCEPT
                  !.db = edge.db,
                  !.attempts = Append(@, [id |-> opportunity.id, node |-> "created",
                                          edge |-> "created", before |-> before])]

\* The test of lines 470-472, on the lowered pattern and the lowered description
Matches(condition_pattern, req_description) ==
  \/ Contains(req_description, condition_pattern)
  \/ \E k \in 1..Len(Split(condition_pattern)) :
       Contains(req_description, Split(condition_pattern)[k])

\* The texts of the data, and the text functions tabulated on them (each entry is
\* the function's value, computed once)
Descriptions == {r.description : r \in RequirementInputs}
Complexities == {r.complexity : r \in RequirementInputs}
Patterns ==
  {r.condition_pattern : r \in DefaultRules \cup RuleInputs \cup ProbeRules} \ {None}
Templates ==
  {r.conclusion_template : r \in DefaultRules \cup RuleInputs \cup ProbeRules}

\* rule_record[1].lower() tested against req_data[0].lower()
matches == [p \in Patterns, d \in Descriptions |->
              Matches(Lower(Chars(p)), Lower(Chars(d)))]
suggested == [d \in Templates |-> _suggest_implementation(d)]
estimated == [d \in Templates, c \in Complexities |-> _estimate_hours(d, c)]
cross_estimated == [d \in Descriptions |-> _estimate_cross_domain_hours(Lower(Chars(d)))]

\* The AnalyticalOpportunity of lines 474-484
RuleOpportunity(requirement_id, opportunity_counter, rule_record, req_complexity, t) ==
  [id |-> OppId(requirement_id, "OPP", opportunity_counter),
   description |-> <<rule_record.conclusion_template>>,
   complexity |-> _infer_complexity(req_complexity, rule_record.confidence_weight),
   business_value |-> _calculate_business_value(rule_record.confidence_weight,
                                                rule_record.success_rate),
   confidence_score |-> rule_record.confidence_weight * rule_record.success_rate,
   discovery_method |-> "graph_traversal",
   related_requirements |-> <<requirement_id>>,
   implementation_approach |-> <<suggested[rule_record.conclusion_template]>>,
   estimated_hours |-> estimated[rule_record.conclusion_template, req_complexity],
   roi_projection |-> None,
   created_at |-> t]

\* The loop of lines 461-491 from row i on.  st.raised becomes the exception that
\* leaves the loop: .lower() on a NULL condition pattern raises AttributeError.
RECURSIVE RuleLoop(_, _, _, _, _)
RuleLoop(st, rows, i, opportunity_counter, c) ==
  IF i > Len(rows) THEN st
  ELSE
    LET rule_record == rows[i]
        seen == [st EXCEPT !.visited = Append(@, rule_record.id)]
    IN  IF rule_record.condition_pattern = None
          THEN [seen EXCEPT !.raised = "AttributeError"]
          ELSE IF matches[rule_record.condition_pattern, c.req_description]
            THEN LET opportunity == RuleOpportunity(c.requirement_id, opportunity_counter,
                                                    rule_record, c.req_complexity, c.t)
                     appended == [seen EXCEPT !.opportunities = Append(@, opportunity)]
                 IN  RuleLoop(_add_discovered_opportunity(appended, opportunity,
                                c.requirement_id, <<rule_record.id>>, c.F, c.t),
                              rows, i + 1, opportunity_counter + 1, c)
            ELSE RuleLoop(seen, rows, i + 1, opportunity_counter, c)

\* ', '.join(tech_stack[:3])
FirstThree(tech_stack) == SubSeq(tech_stack, 1, Min(3, Len(tech_stack)))

\* The AnalyticalOpportunity of lines 531-541
CrossOpportunity(req_id, opportunity_counter, record, req_domain, req_description, t) ==
  [id |-> OppId(req_id, "CROSS", opportunity_counter),
   description |-> <<"Cross-domain analytics leveraging", record.industry, req_domain>>,
   complexity |-> "medium",
   business_value |-> _calculate_cross_domain_value(req_domain, record.industry),
   confidence_score |-> 7000,
   discovery_method |-> "cross_domain",
   related_requirements |-> <<req_id>>,
   implementation_approach |-> <<"Leverage", record.industry,
                                 FirstThree(record.technology_stack)>>,
   estimated_hours |-> cross_estimated[req_description],
   roi_projection |-> None,
   created_at |-> t]

\* The loop of lines 523-546 from row i on
RECURSIVE CrossLoop(_, _, _, _, _)
CrossLoop(st, rows, i, opportunity_counter, c) ==
  IF i > Len(rows) THEN st
  ELSE
    LET record == rows[i]
        opportunity == CrossOpportunity(c.requirement_id, opportunity_counter, record,
                                        c.req_domain, c.req_description, c.t)
        appended == [st EXCEPT !.visited = Append(@, record.id),
                               !.opportunities = Append(@, opportunity)]
    IN  CrossLoop(_add_discovered_opportunity(appended, opportunity, c.requirement_id,
                    <<"CROSS_DOMAIN", record.id>>, c.F, c.t),
                  rows, i + 1, opportunity_counter + 1, c)

\* _discover_cross_domain_opportunities(req_id, req_domain, req_description), the query
\* returning rows: its own list of opportunities, and its except clause
_discover_cross_domain_opportunities(st, rows, c) ==
  LET own == [st EXCEPT !.opportunities = <<>>]
  IN  IF Query("cross_domain_query") \in c.F
        THEN [own EXCEPT !.log = Append(@, <<"error", "cross_domain", c.requirement_id>>)]
        ELSE CrossLoop(own, rows, 1, 1, c)

\* What a discovery starts from
Start(d) ==
  [db |-> d, opportunities |-> <<>>, log |-> <<>>, attempts |-> <<>>,
   visited |-> <<>>, raised |-> None, cross_ran |-> FALSE]

Failed(st, requirement_id) ==
  [st EXCEPT !.log = Append(@, <<"error", "discover", requirement_id>>),
             !.raised = None]

\* The body with line 497 putting the cross-domain opportunities in front of the list
DiscoverBodyCrossFirst(d, requirement_id, req_data, rule_rows, cross_rows, F, t) ==
  LET c == [requirement_id |-> requirement_id,
            req_description |-> req_data[1],
            req_domain |-> req_data[2], req_complexity |-> req_data[3],
            F |-> F, t |-> t]
      st0 == Start(d)
  IN  IF Query("inference_query") \in F
        THEN Failed(st0, requirement_id)
        ELSE LET st1 == RuleLoop(st0, rule_rows, 1, 1, c)
             IN  IF st1.raised # None
                   THEN Failed(st1, requirement_id)
                   ELSE LET st2 == _discover_cross_domain_opportunities(st1, cross_rows, c)
                        IN  [st2 EXCEPT
                               !.opportunities = st2.opportunities \o st1.opportunities,
                               !.cross_ran = TRUE,
                               !.log = Append(@, <<"info", "discover", requirement_id>>)]

\* Lines 445-500 of discover_implicit_opportunities with req_data read, under the
\* except clause of lines 502-504: the inference query returns rule_rows, and the
\* cross-domain query cross_rows.  req_description is carried as stored; the tables
\* above lower it where the code reads the lowered text.
DiscoverBody(d, requirement_id, req_data, rule_rows, cross_rows, F, t) ==
  LET c == [requirement_id |-> requirement_id,
            req_description |-> req_data[1],
            req_domain |-> req_data[2], req_complexity |-> req_data[3],
            F |-> F, t |-> t]
      st0 == Start(d)
  IN  IF Query("inference_query") \in F
        THEN Failed(st0, requirement_id)
        ELSE LET st1 == RuleLoop(st0, rule_rows, 1, 1, c)
             IN  IF st1.raised # None
                   THEN Failed(st1, requirement_id)
                   ELSE LET st2 == _discover_cross_domain_opportunities(st1, cross_rows, c)
                        IN  [st2 EXCEPT
                               !.opportunities = st1.opportunities \o st2.opportunities,
                               !.cross_ran = TRUE,
                               !.log = Append(@, <<"info", "discover", requirement_id>>)]

\* The statements DiscoverBody can send for these rows
Statements(requirement_id, req_description, rule_rows, cross_rows) ==
  {Query("inference_query"), Query("cross_domain_query")}
  \cup {Write(k, OppId(requirement_id, "OPP", n)) :
          k \in {"node", "edge"},
          n \in 1..Cardinality({i \in 1..Len(rule_rows) :
                                 /\ rule_rows[i].condition_pattern # None
                                 /\ matches[rule_rows[i].condition_pattern,
                                            req_description]})}
  \cup {Write(k, OppId(requirement_id, "CROSS", n)) :
          k \in {"node", "edge"}, n \in 1..Len(cross_rows)}

\* Every outcome of lines 445-504 for req_data: over the orders the two queries may
\* return their rows in and over the store's failures
BodyOutcomes(d, requirement_id, req_data, t) ==
  UNION {UNION {{DiscoverBody(d, requirement_id, req_data, rule_rows, cross_rows, F, t) :
                   F \in UpTo(Statements(requirement_id, req_data[1], rule_rows, cross_rows),
                              MaxFailures)} :
                cross_rows \in CrossDomainRows(d, req_data[2])} :
         rule_rows \in InferenceRows(d, req_data[2])}

\* A row is a list of the three returned columns; "not row" is true of an empty list
Truthy(row) == Len(row) > 0

\* discover_implicit_opportunities(requirement_id), lines 429-504: every outcome.
\* The row is taken by the get_next() of line 440 and again by that of line 444.
discover_implicit_opportunities(d, requirement_id, t) ==
  LET st0 == Start(d)
      query_failed == {Failed(st0, requirement_id)}
      answered ==
        UNION {LET first == get_next(QueryResult(rows))
                   second == get_next(first.result)
               IN  IF first.raised # None
                     THEN {Failed(st0, requirement_id)}
                     ELSE IF ~Truthy(first.row)
                       THEN {[st0 EXCEPT !.log = <<<<"warning", "not found",
                                                     requirement_id>>>>]}
                       ELSE IF second.raised # None
                         THEN {Failed(st0, requirement_id)}
                         ELSE BodyOutcomes(d, requirement_id, second.row, t) :
               rows \in ReqRows(d, requirement_id)}
  IN  (IF MaxFailures > 0 THEN query_failed ELSE {}) \cup answered

Returned(op, requirement_id, out) ==
  Call(op, requirement_id, TRUE, out.opportunities, out.log, out.attempts,
       out.visited, out.cross_ran)

\* A caller runs discover_implicit_opportunities(requirement_id)
Discover(requirement_id) ==
  \E out \in discover_implicit_opportunities(db, requirement_id, now) :
    /\ db' = out.db
    /\ ret' = Returned("discover_implicit_opportunities", requirement_id, out)
    /\ UNCHANGED now

AddBusinessRequirement ==
  \E requirement \in RequirementInputs, fail \in BOOLEAN :
    add_business_requirement(requirement, fail)

AddDomainEntity ==
  \E entity \in EntityInputs, fail \in BOOLEAN : add_domain_entity(entity, fail)

AddInferenceRule ==
  \E rule \in RuleInputs, fail \in BOOLEAN : add_inference_rule(rule, fail)

DiscoverImplicitOpportunities ==
  \E requirement_id \in RequirementIds : Discover(requirement_id)

Next ==
  \/ Tick
  \/ AddBusinessRequirement
  \/ AddDomainEntity
  \/ AddInferenceRule
  \/ DiscoverImplicitOpportunities

\* The engine as its callers can drive it
Spec == Init /\ [][Next]_vars

---------------------------------------------------------------------------
\* Lines 445-504 on a stored requirement's row

\* Entities short of the maturity the cross-domain query asks for: one by its
\* maturity level, one by its data maturity
GatedEntities ==
  { [id |-> "ENT_004", name |-> "Parcel Startup",
     entity_type |-> "company", industry |-> "logistics",
     maturity_level |-> "growth",
     technology_stack |-> <<"Excel">>, data_maturity |-> "optimized"],
    [id |-> "ENT_005", name |-> "Clinic",
     entity_type |-> "department", industry |-> "healthcare",
     maturity_level |-> "enterprise",
     technology_stack |-> <<"Epic", "Tableau">>, data_maturity |-> "defined"] }

\* The entities a store may hold when a discovery starts
Ingested ==
  {{e \in EntityInputs \cup GatedEntities : e.id \in ids} :
     ids \in {{}, {"ENT_001"}, {"ENT_001", "ENT_002"},
              {"ENT_001", "ENT_002", "ENT_003"},
              {"ENT_001", "ENT_002", "ENT_004", "ENT_005"}}}

\* After construction and ingestion: one requirement has been added, the entities up
\* to some id, and none or all of the extra rules (every entity only next to REQ_001
\* and the default rules)
InitBody ==
  /\ \E requirement \in RequirementInputs,
        entities \in Ingested,
        rules \in {{}, ExtraRules} :
       /\ entities = EntityInputs => requirement.id = "REQ_001" /\ rules = {}
       /\ db = [t \in Tables |->
                 CASE t = "BusinessRequirement" ->
                        SetToBag({RequirementRow(requirement, 0)})
                   [] t = "DomainEntity" -> SetToBag(entities)
                   [] t = "InferenceRule" ->
                        SetToBag({StoredRule(r, 0) : r \in DefaultRules \cup rules})
                   [] OTHER -> EmptyBag]
  /\ now = 0
  /\ ret = Call("init", None, TRUE, <<>>, <<>>, <<>>, <<>>, FALSE)

\* Lines 445-504 run with req_data the row of a stored requirement
DiscoverFromRow ==
  \E requirement \in Rows(db, "BusinessRequirement") :
    \E out \in BodyOutcomes(db, requirement.id,
                            <<requirement.description, requirement.domain,
                              requirement.complexity>>, now) :
      /\ db' = out.db
      /\ ret' = Returned("discover_from_row", requirement.id, out)
      /\ UNCHANGED now

\* Someone deletes one IMPLIES relationship by hand and keeps its opportunity node
DeleteImplies ==
  \E e \in Rows(db, "IMPLIES") :
    /\ db' = [db EXCEPT !["IMPLIES"] = @ (-) SetToBag({e})]
    /\ ret' = [Call("delete_implies", e.from, TRUE, <<>>, <<>>, <<>>, <<>>, FALSE)
                 EXCEPT !.target = e.to]
    /\ UNCHANGED now

NextBody ==
  \/ Tick
  \/ DiscoverFromRow
  \/ DeleteImplies

SpecBody == InitBody /\ [][NextBody]_vars

---------------------------------------------------------------------------
\* Lines 445-504 over a catalog with rules beside the default ones

\* After construction and ingestion: one requirement, some of ProbeRules, and no
\* entity, or ENT_002 next to REQ_001 and two of ProbeRules
InitRules ==
  /\ \E requirement \in RequirementInputs,
        rules \in SUBSET ProbeRules,
        entities \in {{}, {e \in EntityInputs : e.id = "ENT_002"}} :
       /\ entities # {} =>
            requirement.id = "REQ_001" /\ Cardinality(rules) = 2
       /\ db = [t \in Tables |->
                 CASE t = "BusinessRequirement" ->
                        SetToBag({RequirementRow(requirement, 0)})
                   [] t = "DomainEntity" -> SetToBag(entities)
                   [] t = "InferenceRule" ->
                        SetToBag({StoredRule(r, 0) : r \in DefaultRules \cup rules})
                   [] OTHER -> EmptyBag]
  /\ now = 0
  /\ ret = Call("init", None, TRUE, <<>>, <<>>, <<>>, <<>>, FALSE)

NextRules ==
  \/ Tick
  \/ DiscoverFromRow

SpecRules == InitRules /\ [][NextRules]_vars

---------------------------------------------------------------------------
\* Two callers in lines 445-504 at once, one statement of the store at a time.
\* Here ret holds one record per caller, and the clock stands still.

Callers == {1, 2}

\* The store the callers start from: both requirements, every entity, the rules of
\* construction
ParStore ==
  [t \in Tables |->
     CASE t = "BusinessRequirement" ->
            SetToBag({RequirementRow(r, 0) : r \in RequirementInputs})
       [] t = "DomainEntity" -> SetToBag(EntityInputs)
       [] t = "InferenceRule" -> SetToBag({StoredRule(r, 0) : r \in DefaultRules})
       [] OTHER -> EmptyBag]

\* A caller: where it is (idle, rules, cross, done), its requirement, the
\* opportunities generated and not yet written (pending, each with its source), the
\* statement the first of them is at (node, edge) and the rows stored under its id
\* before, whether the rule loop ends in an exception, its list of opportunities,
\* its log and write attempts, and how many statements the store failed
Idle ==
  [pc |-> "idle", arg |-> None, c |-> <<>>, pending |-> <<>>, at |-> "node",
   before |-> {}, raises |-> FALSE, value |-> <<>>, raised |-> None, log |-> <<>>,
   attempts |-> <<>>, cross_ran |-> FALSE, failures |-> 0]

\* The opportunities the loop of lines 461-491 generates from row i on, each with
\* its source, up to a row whose pattern is NULL
RECURSIVE RulePlan(_, _, _, _)
RulePlan(rows, i, opportunity_counter, c) ==
  IF i > Len(rows) \/ rows[i].condition_pattern = None THEN <<>>
  ELSE IF matches[rows[i].condition_pattern, c.req_description]
    THEN <<[opportunity |-> RuleOpportunity(c.requirement_id, opportunity_counter,
                                            rows[i], c.req_complexity, c.t),
            source_id |-> <<rows[i].id>>]>>
         \o RulePlan(rows, i + 1, opportunity_counter + 1, c)
    ELSE RulePlan(rows, i + 1, opportunity_counter, c)

\* The opportunities the loop of lines 523-546 generates, each with its source
CrossPlan(rows, c) ==
  [i \in 1..Len(rows) |->
     [opportunity |-> CrossOpportunity(c.requirement_id, i, rows[i], c.req_domain,
                                       c.req_description, c.t),
      source_id |-> <<"CROSS_DOMAIN", rows[i].id>>]]

MayFail(call) == {FALSE} \cup (IF call.failures < MaxFailures THEN {TRUE} ELSE {})

Fails(failures, fail) == IF fail THEN failures + 1 ELSE failures

\* Line 459: the inference query, for a stored requirement's row
ParInference(p) ==
  /\ ret[p].pc = "idle"
  /\ \E requirement \in Rows(db, "BusinessRequirement"), fail \in MayFail(ret[p]) :
       LET c == [requirement_id |-> requirement.id,
                 req_description |-> requirement.description,
                 req_domain |-> requirement.domain,
                 req_complexity |-> requirement.complexity, t |-> now]
           started == [ret[p] EXCEPT !.arg = requirement.id, !.c = c,
                                     !.failures = Fails(@, fail)]
       IN  IF fail
             THEN ret' = [ret EXCEPT ![p] =
                            [started EXCEPT
                               !.pc = "done",
                               !.log = <<<<"error", "discover", requirement.id>>>>]]
             ELSE \E rows \in InferenceRows(db, requirement.domain) :
                    ret' = [ret EXCEPT ![p] =
                              [started EXCEPT
                                 !.pc = "rules",
                                 !.pending = RulePlan(rows, 1, 1, c),
                                 !.raises = \E i \in 1..Len(rows) :
                                               rows[i].condition_pattern = None]]
  /\ UNCHANGED <<db, now>>

\* Lines 486 and 573 for the first pending opportunity: it joins the list, and its
\* node is sent to the store
ParNode(p) ==
  /\ ret[p].pc \in {"rules", "cross"}
  /\ ret[p].pending # <<>>
  /\ ret[p].at = "node"
  /\ \E fail \in MayFail(ret[p]) :
       LET opportunity == ret[p].pending[1].opportunity
           before == RowsWithId(db, "AnalyticalOpportunity", opportunity.id)
           node == CreateNode(db, "AnalyticalOpportunity", OpportunityRow(opportunity),
                              fail)
           listed == [ret[p] EXCEPT !.value = Append(@, opportunity),
                                    !.failures = Fails(@, fail)]
       IN  IF node.raised # None
             THEN /\ ret' = [ret EXCEPT ![p] =
                               [listed EXCEPT
                                  !.pending = Tail(@),
                                  !.log = Append(@, <<"error", "_add_discovered_opportunity",
                                                      opportunity.id>>),
                                  !.attempts = Append(@, [id |-> opportunity.id,
                                                          node |-> node.raised,
                                                          edge |-> "skipped",
                                                          before |-> before])]]
                  /\ db' = db
             ELSE /\ ret' = [ret EXCEPT ![p] =
                               [listed EXCEPT !.at = "edge", !.before = before]]
                  /\ db' = node.db
  /\ UNCHANGED now

\* Line 587 for the first pending opportunity: its relationship is sent to the store
ParEdge(p) ==
  /\ ret[p].pc \in {"rules", "cross"}
  /\ ret[p].pending # <<>>
  /\ ret[p].at = "edge"
  /\ \E fail \in MayFail(ret[p]) :
       LET head == ret[p].pending[1]
           edge == CreateImplies(db, ImpliesRow(head.opportunity, ret[p].arg,
                                                head.source_id, now), fail)
           written == [ret[p] EXCEPT
                         !.pending = Tail(@), !.at = "node", !.before = {},
                         !.failures = Fails(@, fail),
                         !.attempts = Append(@, [id |-> head.opportunity.id,
                                                 node |-> "created",
                                                 edge |-> IF edge.raised # None
                                                            THEN edge.raised
                                                            ELSE "created",
                                                 before |-> ret[p].before])]
       IN  IF edge.raised # None
             THEN /\ ret' = [ret EXCEPT ![p] =
                               [written EXCEPT
                                  !.log = Append(@, <<"error", "_add_discovered_opportunity",
                                                      head.opportunity.id>>)]]
                  /\ db' = db
             ELSE /\ ret' = [ret EXCEPT ![p] = written]
                  /\ db' = edge.db
  /\ UNCHANGED now

\* The rule loop is over: by its exception (lines 502-504), or line 521, the
\* cross-domain query
ParCrossDomain(p) ==
  /\ ret[p].pc = "rules"
  /\ ret[p].pending = <<>>
  /\ IF ret[p].raises
       THEN ret' = [ret EXCEPT ![p] =
                      [@ EXCEPT !.pc = "done",
                                !.log = Append(@, <<"error", "discover", ret[p].arg>>)]]
       ELSE \E fail \in MayFail(ret[p]) :
              IF fail
                THEN ret' = [ret EXCEPT ![p] =
                               [@ EXCEPT !.pc = "cross", !.failures = @ + 1,
                                         !.log = Append(@, <<"error", "cross_domain",
                                                             ret[p].arg>>)]]
                ELSE \E rows \in CrossDomainRows(db, ret[p].c.req_domain) :
                       ret' = [ret EXCEPT ![p] =
                                 [@ EXCEPT !.pc = "cross",
                                           !.pending = CrossPlan(rows, ret[p].c)]]
  /\ UNCHANGED <<db, now>>

\* Lines 499-500: the call returns its list
ParReturn(p) ==
  /\ ret[p].pc = "cross"
  /\ ret[p].pending = <<>>
  /\ ret' = [ret EXCEPT ![p] =
               [@ EXCEPT !.pc = "done", !.cross_ran = TRUE,
                         !.log = Append(@, <<"info", "discover", ret[p].arg>>)]]
  /\ UNCHANGED <<db, now>>

InitPar ==
  /\ db = ParStore
  /\ now = 0
  /\ ret = [p \in Callers |-> Idle]

NextPar ==
  \E p \in Callers :
    \/ ParInference(p)
    \/ ParNode(p)
    \/ ParEdge(p)
    \/ ParCrossDomain(p)
    \/ ParReturn(p)

SpecPar == InitPar /\ [][NextPar]_vars

---------------------------------------------------------------------------
\* _estimate_hours on its own

\* Descriptions with every combination of the words "automation", "machine
\* learning" and "real-time": as they are, in capitals, and inside longer words
HourDescriptions ==
  { "reporting", "Reporting", "pre-reportings", "automation", "AUTOMATION",
   "pre-automations", "machine learning", "Machine Learning", "pre-machine learnings",
   "automation machine learning", "AUTOMATION MACHINE LEARNING",
   "pre-automation machine learnings", "real-time", "Real-Time", "pre-real-times",
   "automation real-time", "AUTOMATION REAL-TIME", "pre-automation real-times",
   "machine learning real-time", "Machine Learning Real-Time",
   "pre-machine learning real-times", "automation machine learning real-time",
   "AUTOMATION MACHINE LEARNING REAL-TIME",
   "pre-automation machine learning real-times" }

\* The four complexities, and one base_hours has no entry for
HourComplexities == {"low", "medium", "high", "very_high", "extreme"}

\* self._estimate_hours(description, complexity); ret keeps the arguments and the
\* hours returned
EstimateHours ==
  \E description \in HourDescriptions, complexity \in HourComplexities :
    /\ ret' = [Call("_estimate_hours", description, TRUE,
                    _estimate_hours(description, complexity), <<>>, <<>>, <<>>, FALSE)
                 EXCEPT !.target = complexity]
    /\ UNCHANGED <<db, now>>

SpecHours == Init /\ [][EstimateHours]_vars

---------------------------------------------------------------------------
\* _infer_complexity on its own

\* Confidences from 0.00 to 1.00 in hundredths
Confidences == 0..100

\* self._infer_complexity(req_complexity, confidence); ret keeps the arguments and
\* the complexity returned
InferComplexity ==
  \E req_complexity \in HourComplexities, confidence \in Confidences :
    /\ ret' = [Call("_infer_complexity", req_complexity, TRUE,
                    _infer_complexity(req_complexity, confidence), <<>>, <<>>, <<>>, FALSE)
                 EXCEPT !.target = confidence]
    /\ UNCHANGED <<db, now>>

SpecComplexity == Init /\ [][InferComplexity]_vars

---------------------------------------------------------------------------
\* Properties

\* The call reached its last line with every statement it sent answered by the store
Completed(call) ==
  /\ call.cross_ran
  /\ \A i \in 1..Len(call.log) : call.log[i][1] # "error" \/ call.log[i][2] # "cross_domain"
  /\ \A i \in 1..Len(call.attempts) :
       call.attempts[i].node # "StoreError" /\ call.attempts[i].edge # "StoreError"

\* An opportunity's attributes other than the time it was generated at
Content(row) ==
  [id |-> row.id, description |-> row.description, complexity |-> row.complexity,
   business_value |-> row.business_value, confidence_score |-> row.confidence_score,
   discovery_method |-> row.discovery_method,
   implementation_approach |-> row.implementation_approach,
   estimated_hours |-> row.estimated_hours]

HasEdge(d, requirement_id, opportunity_id) ==
  \E e \in Rows(d, "IMPLIES") : e.from = requirement_id /\ e.to = opportunity_id

\* C1: two discoveries for one requirement, one directly after the other with nothing
\* written to the graph in between, both answered by the store and both visiting the
\* same rows in the same order, return the same opportunities: the same ids, and each
\* opportunity with identical attributes (created_at is one of them).
C1_SameResultTwice ==
  [][(/\ ret.op = "discover_from_row" /\ ret'.op = "discover_from_row"
      /\ ret'.arg = ret.arg
      /\ Completed(ret) /\ Completed(ret')
      /\ ret'.visited = ret.visited)
     => ret'.value = ret.value]_vars

\* C2: however often discovery is rerun, the store holds at most one
\* AnalyticalOpportunity node per id and at most one IMPLIES relationship from a
\* requirement to an opportunity.
C2_NoDuplicates ==
  /\ \A row \in Rows(db, "AnalyticalOpportunity") :
       CountId(db, "AnalyticalOpportunity", row.id) = 1
  /\ \A e \in Rows(db, "IMPLIES") :
       SumCopies(db["IMPLIES"],
                 {f \in Rows(db, "IMPLIES") : f.from = e.from /\ f.to = e.to}) = 1

\* C2 at work: a rerun generated an id whose node is stored, and the node and its
\* relationship are there once
C2_RerunOnStoredNode ==
  /\ ret.op = "discover_from_row"
  /\ \E i \in 1..Len(ret.attempts) :
       /\ ret.attempts[i].node = "PrimaryKeyError"
       /\ CountId(db, "AnalyticalOpportunity", ret.attempts[i].id) = 1
       /\ HasEdge(db, ret.arg, ret.attempts[i].id)

\* C3: after a discovery, each opportunity node the call set out to create is stored
\* if and only if its IMPLIES relationship from the requirement is stored, also when
\* the store failed one of the two statements.
C3_NodeIffEdge ==
  ret.op = "discover_from_row" =>
    \A i \in 1..Len(ret.attempts) :
      ret.attempts[i].before = {} =>
        (RowsWithId(db, "AnalyticalOpportunity", ret.attempts[i].id) # {}
           <=> HasEdge(db, ret.arg, ret.attempts[i].id))

\* C4: a discovery replayed for a requirement right after the IMPLIES relationship of
\* one of its opportunities was deleted (the node kept), and answered by the store,
\* either stores the relationship again or raises ConflictError, and leaves one node
\* under the opportunity's id.
C4_ReplayRepairsOrRaises ==
  [][(/\ ret.op = "delete_implies" /\ ret'.op = "discover_from_row"
      /\ ret'.arg = ret.arg
      /\ Completed(ret'))
     => /\ HasEdge(db', ret.arg, ret.target) \/ ret'.raised = "ConflictError"
        /\ CountId(db', "AnalyticalOpportunity", ret.target) = 1]_vars

\* C5: a discovery, answered by the store, that generates an opportunity whose id is
\* stored with other content (the time of generation aside) raises ConflictError to
\* its caller.
C5_ConflictSurfaced ==
  (/\ ret.op = "discover_from_row"
   /\ Completed(ret)
   /\ \E i \in 1..Len(ret.attempts), j \in 1..Len(ret.value) :
        /\ ret.value[j].id = ret.attempts[i].id
        /\ \E row \in ret.attempts[i].before : Content(row) # Content(ret.value[j]))
  => ret.raised = "ConflictError"

\* C6: a stored AnalyticalOpportunity node keeps every attribute it was stored with,
\* whatever is run afterwards.
C6_NeverOverwritten ==
  [][\A row \in Rows(db, "AnalyticalOpportunity") :
       row \in Rows(db', "AnalyticalOpportunity")]_vars

\* C6 at work: a discovery generated other content for an id that is stored, and the
\* stored node is as it was
C6_OtherContentKeptOut ==
  /\ ret.op = "discover_from_row"
  /\ \E i \in 1..Len(ret.attempts), j \in 1..Len(ret.value) :
       /\ ret.value[j].id = ret.attempts[i].id
       /\ ret.attempts[i].before # {}
       /\ \A row \in ret.attempts[i].before :
            /\ Content(row) # Content(ret.value[j])
            /\ row \in Rows(db, "AnalyticalOpportunity")
       /\ RowsWithId(db, "AnalyticalOpportunity", ret.attempts[i].id)
            = ret.attempts[i].before

\* C7: discover_implicit_opportunities for an id that no stored requirement has
\* raises NotFound to its caller (and so differs from a call that found nothing).
C7_AbsentRequirementNotFound ==
  (/\ ret.op = "discover_implicit_opportunities"
   /\ RowsWithId(db, "BusinessRequirement", ret.arg) = {})
  => ret.raised = "NotFound"

\* C8: with the rules of construction stored, a discovery for REQ_001 that the store
\* answered returns exactly one graph_traversal opportunity, of confidence 0.624 and
\* business value 936.0.
C8_SupplierTrackingExample ==
  (/\ ret.op = "discover_from_row" /\ ret.arg = "REQ_001"
   /\ Completed(ret)
   /\ {r.id : r \in Rows(db, "InferenceRule")} = {r.id : r \in DefaultRules})
  => LET rule_based == {j \in 1..Len(ret.value) :
                          ret.value[j].discovery_method = "graph_traversal"}
     IN  /\ Cardinality(rule_based) = 1
         /\ \A j \in rule_based :
              /\ ret.value[j].confidence_score = 6240
              /\ ret.value[j].business_value = 93600

\* The rules inference_query returns for a domain
Applicable(d, req_domain) ==
  UNION {{rows[i] : i \in 1..Len(rows)} : rows \in InferenceRows(d, req_domain)}

\* C9: a discovery whose inference query was answered visits every applicable rule
\* and then runs the cross-domain step, whatever happens at one of the rules.
C9_RuleFailureNotFatal ==
  (ret.op = "discover_from_row" /\ ret.visited # <<>>)
  => /\ ret.cross_ran
     /\ \A requirement \in RowsWithId(db, "BusinessRequirement", ret.arg) :
          \A rule \in Applicable(db, requirement.domain) : InList(rule.id, ret.visited)

\* C10: no opportunity a discovery returns had its node or its IMPLIES relationship
\* failed by the store during the call.
C10_FailedWritesLeftOut ==
  ret.op = "discover_from_row" =>
    \A j \in 1..Len(ret.value), i \in 1..Len(ret.attempts) :
      ret.attempts[i].id = ret.value[j].id =>
        ret.attempts[i].node # "StoreError" /\ ret.attempts[i].edge # "StoreError"

\* What lines 445-504 run alone from store d for a requirement come to when the
\* store answers every statement
Unfailed(d, requirement) ==
  {DiscoverBody(d, requirement.id,
                <<requirement.description, requirement.domain, requirement.complexity>>,
                rule_rows, cross_rows, {}, 0) :
     rule_rows \in InferenceRows(d, requirement.domain),
     cross_rows \in CrossDomainRows(d, requirement.domain)}

\* C11: two calls for one requirement, interleaved statement by statement and each
\* answered by the store in full, leave the store as one call alone leaves it (and so
\* with one node per opportunity id and one IMPLIES relationship per opportunity).
C11_InterleavedAsOneCall ==
  \A p \in Callers, q \in Callers :
    (/\ p # q
     /\ ret[p].pc = "done" /\ ret[q].pc = "done"
     /\ ret[p].arg = ret[q].arg
     /\ ret[p].failures = 0 /\ ret[q].failures = 0)
    => \E requirement \in RowsWithId(ParStore, "BusinessRequirement", ret[p].arg) :
         db \in {out.db : out \in Unfailed(ParStore, requirement)}

\* What lines 445-504 run alone from ParStore come to for each requirement, over the
\* orders of the rows and the store's failures
Alone ==
  [requirement_id \in {r.id : r \in RequirementInputs} |->
     UNION {BodyOutcomes(ParStore, requirement.id,
                         <<requirement.description, requirement.domain,
                           requirement.complexity>>, 0) :
            requirement \in RowsWithId(ParStore, "BusinessRequirement", requirement_id)}]

\* The nodes stored under the ids of a list of opportunities, and the relationships
\* stored from a requirement
PersistedFor(d, requirement_id, value) ==
  [nodes |-> {row \in Rows(d, "AnalyticalOpportunity") :
                \E j \in 1..Len(value) : value[j].id = row.id},
   edges |-> {e \in Rows(d, "IMPLIES") : e.from = requirement_id}]

\* C12: a call that has returned while no other caller worked on its requirement
\* returns a list, and has the nodes and relationships stored for its requirement,
\* that the call running alone can return and store.
C12_OtherRequirementsApart ==
  \A p \in Callers :
    (/\ ret[p].pc = "done"
     /\ \A q \in Callers \ {p} : ret[q].arg # ret[p].arg)
    => \E out \in Alone[ret[p].arg] :
         /\ out.opportunities = ret[p].value
         /\ PersistedFor(out.db, ret[p].arg, out.opportunities)
              = PersistedFor(db, ret[p].arg, ret[p].value)

\* C12 at work: two calls for different requirements have both returned
\* opportunities, their statements having alternated
C12_BothReturned ==
  \A p \in Callers :
    /\ ret[p].pc = "done"
    /\ ret[p].value # <<>>
    /\ \A q \in Callers \ {p} : ret[q].arg # ret[p].arg
    /\ \E e \in Rows(db, "IMPLIES") : e.from = ret[p].arg /\ e.created_at = 0

\* C13: every stored rule's confidence weight and success rate, and every returned
\* opportunity's confidence score, lies in [0.0, 1.0].
C13_WeightsInUnitRange ==
  /\ \A rule \in Rows(db, "InferenceRule") :
       /\ rule.confidence_weight \in 0..100
       /\ rule.success_rate \in 0..100
  /\ ret.op = "discover_implicit_opportunities" =>
       \A j \in 1..Len(ret.value) : ret.value[j].confidence_score \in 0..10000

\* What the catalog is meant to hold
Valid(rule) ==
  /\ rule.confidence_weight \in 0..100
  /\ rule.success_rate \in 0..100
  /\ rule.domain_applicability # <<>>

\* C14: add_inference_rule for a rule whose confidence weight or success rate is
\* outside [0, 1], or whose list of domains is empty, raises ValidationError and
\* stores nothing.
C14_InvalidRuleRejected ==
  \A rule \in RuleInputs :
    (ret.op = "add_inference_rule" /\ ret.arg = rule.id /\ ~Valid(rule))
    => /\ ret.raised = "ValidationError"
       /\ RowsWithId(db, "InferenceRule", rule.id) = {}

\* The rule ids in ascending order
RuleIdOrder ==
  <<"RULE_001", "RULE_002", "RULE_003", "RULE_004", "RULE_005",
    "RULE_101", "RULE_102", "RULE_103", "RULE_104">>

IdRank(id) == CHOOSE k \in 1..Len(RuleIdOrder) : RuleIdOrder[k] = id

\* a is visited before b under (confidence_weight desc, success_rate desc, id asc)
VisitedBefore(a, b) ==
  \/ SortsBefore(a, b)
  \/ /\ a.confidence_weight = b.confidence_weight
     /\ a.success_rate = b.success_rate
     /\ IdRank(a.id) < IdRank(b.id)

\* C15: a discovery visits the applicable rules by descending confidence weight,
\* then descending success rate, then ascending id.
C15_RuleOrderDeterministic ==
  ret.op = "discover_from_row" =>
    \A i \in 1..Len(ret.visited), j \in 1..Len(ret.visited) :
      i < j =>
        \A a \in RowsWithId(db, "InferenceRule", ret.visited[i]),
           b \in RowsWithId(db, "InferenceRule", ret.visited[j]) :
          VisitedBefore(a, b)

\* The gate of the cross-domain step for a requirement's domain
PassesGate(entity, req_domain) ==
  /\ entity.industry # req_domain
  /\ entity.maturity_level \in {"mature", "enterprise"}
  /\ entity.data_maturity \in {"managed", "optimized"}

\* C16: every entity a discovery visits passes the gate for the requirement's domain,
\* and every cross_domain opportunity returned is the one synthesized from a visited
\* entity.
C16_CrossDomainGate ==
  ret.op = "discover_from_row" =>
    \A requirement \in RowsWithId(db, "BusinessRequirement", ret.arg) :
      /\ \A i \in 1..Len(ret.visited) :
           \A entity \in RowsWithId(db, "DomainEntity", ret.visited[i]) :
             PassesGate(entity, requirement.domain)
      /\ \A j \in 1..Len(ret.value) :
           ret.value[j].discovery_method = "cross_domain" =>
             \E i \in 1..Len(ret.visited) :
               \E entity \in RowsWithId(db, "DomainEntity", ret.visited[i]) :
                 /\ ret.value[j].description
                      = <<"Cross-domain analytics leveraging", entity.industry,
                          requirement.domain>>
                 /\ ret.value[j].implementation_approach
                      = <<"Leverage", entity.industry,
                          FirstThree(entity.technology_stack)>>

\* C16 at work: a cross_domain opportunity was returned from a store holding an
\* entity of the requirement's own domain, one short of the maturity level and one
\* short of the data maturity
C16_GateKeptEntitiesOut ==
  /\ ret.op = "discover_from_row"
  /\ \E j \in 1..Len(ret.value) : ret.value[j].discovery_method = "cross_domain"
  /\ \A requirement \in RowsWithId(db, "BusinessRequirement", ret.arg) :
       /\ \E e \in Rows(db, "DomainEntity") : e.industry = requirement.domain
       /\ \E e \in Rows(db, "DomainEntity") :
            e.maturity_level \notin {"mature", "enterprise"}
       /\ \E e \in Rows(db, "DomainEntity") :
            e.data_maturity \notin {"managed", "optimized"}

\* C17: with a manufacturing requirement and a retail entity of maturity enterprise
\* and data maturity optimized stored, a discovery for the requirement returns a
\* cross_domain opportunity of confidence 0.7 and of business value 1200 * 1.3, the
\* synergy of (manufacturing, retail).
C17_ManufacturingRetailSynergy ==
  (/\ ret.op = "discover_implicit_opportunities"
   /\ \E requirement \in RowsWithId(db, "BusinessRequirement", ret.arg) :
        requirement.domain = "manufacturing"
   /\ \E entity \in Rows(db, "DomainEntity") :
        /\ entity.industry = "retail"
        /\ entity.maturity_level = "enterprise"
        /\ entity.data_maturity = "optimized")
  => \E j \in 1..Len(ret.value) :
       /\ ret.value[j].discovery_method = "cross_domain"
       /\ ret.value[j].confidence_score = 7000
       /\ ret.value[j].business_value = 156000

\* low < medium < high < very_high
ComplexityOrder == <<"low", "medium", "high", "very_high">>

ComplexityRank(complexity) ==
  CHOOSE k \in 1..Len(ComplexityOrder) : ComplexityOrder[k] = complexity

\* C18: of two calls of _estimate_hours with one description, the one with the
\* higher complexity (low < medium < high < very_high) returns at least the hours of
\* the other.
C18_HoursMonotone ==
  [][(/\ ret.op = "_estimate_hours" /\ ret'.op = "_estimate_hours"
      /\ ret'.arg = ret.arg
      /\ \E k \in 1..Len(ComplexityOrder) : ComplexityOrder[k] = ret.target
      /\ \E k \in 1..Len(ComplexityOrder) : ComplexityOrder[k] = ret'.target
      /\ ComplexityRank(ret.target) <= ComplexityRank(ret'.target))
     => ret.value <= ret'.value]_vars

\* C18 at work: the hours of a description with all three words at very_high,
\* int(480 * 1.3 * 1.4 * 1.2)
C18_AllSurchargesVeryHigh ==
  /\ ret.op = "_estimate_hours"
  /\ ret.arg = "AUTOMATION MACHINE LEARNING REAL-TIME"
  /\ ret.target = "very_high"
  /\ ret.value = 1048

\* C19: a discovery that stores the relationship of an opportunity generated from a
\* rule leaves that rule with a usage count greater than before.
C19_UsageCounted ==
  [][ret'.op = "discover_from_row" =>
       \A e \in Rows(db', "IMPLIES") \ Rows(db, "IMPLIES") :
         Len(e.inference_path[2]) = 1 =>
           \A rule \in RowsWithId(db, "InferenceRule", e.inference_path[2][1]) :
             \E after \in RowsWithId(db', "InferenceRule", rule.id) :
               after.usage_count > rule.usage_count]_vars

\* C20: every stored AnalyticalOpportunity node has status discovered.
C20_StatusDiscovered ==
  \A row \in Rows(db, "AnalyticalOpportunity") : row.status = "discovered"

\* C20 at work: a node generated from a rule and a node generated from an entity are
\* stored
C20_BothKindsStored ==
  /\ \E row \in Rows(db, "AnalyticalOpportunity") :
       row.discovery_method = "graph_traversal" /\ row.status = "discovered"
  /\ \E row \in Rows(db, "AnalyticalOpportunity") :
       row.discovery_method = "cross_domain" /\ row.status = "discovered"

\* C21: a discovery leaves the BusinessRequirement table and the DomainEntity table as
\* they were, whatever it returned, logged or failed to write.
C21_RequirementsAndEntitiesKept ==
  [][ret'.op = "discover_from_row" =>
       /\ db'["BusinessRequirement"] = db["BusinessRequirement"]
       /\ db'["DomainEntity"] = db["DomainEntity"]]_vars

\* C21 at work: a discovery that wrote a relationship after the clock moved, and one
\* of whose statements failed, next to stored entities
C21_WroteAndFailedLater ==
  /\ ret.op = "discover_from_row"
  /\ now > 0
  /\ \E e \in Rows(db, "IMPLIES") : e.created_at > 0
  /\ \E i \in 1..Len(ret.log) : ret.log[i][1] = "error"
  /\ Rows(db, "DomainEntity") # {}
  /\ Rows(db, "BusinessRequirement") # {}

\* The two tiers of a match, on lowered texts: the pattern is a run of characters of the
\* description, or a word of the pattern is a word of the description
PhraseTier(pattern, description) == Contains(description, pattern)

TokenTier(pattern, description) ==
  \E i \in 1..Len(Split(pattern)), j \in 1..Len(Split(description)) :
    Split(pattern)[i] = Split(description)[j]

\* The stored requirement a call was made for
RequirementOf(call) ==
  CHOOSE r \in Rows(db, "BusinessRequirement") : r.id = call.arg

\* The rule-based opportunities of a returned list, in their order
RuleBased(value) ==
  LET IsRuleBased(o) == o.discovery_method = "graph_traversal"
  IN  SelectSeq(value, IsRuleBased)

\* C22: the rules that produce an opportunity are, among the rules visited and in
\* their order, exactly those whose pattern matches the description by phrase or by
\* a whole word.
C22_MatchIsPhraseOrWholeToken ==
  ret.op = "discover_from_row" /\ ret.cross_ran =>
    LET description == Lower(Chars(RequirementOf(ret).description))
        Claimed(id) ==
          \E rule \in RowsWithId(db, "InferenceRule", id) :
            \/ PhraseTier(Lower(Chars(rule.condition_pattern)), description)
            \/ TokenTier(Lower(Chars(rule.condition_pattern)), description)
        expected == SelectSeq(ret.visited, Claimed)
        generated == RuleBased(ret.value)
    IN  /\ Len(generated) = Len(expected)
        /\ \A i \in 1..Len(generated) :
             \E rule \in RowsWithId(db, "InferenceRule", expected[i]) :
               generated[i].description = <<rule.conclusion_template>>

\* C23: the rules a discovery visits are those listing the requirement's domain,
\* whatever their success rate, and those listing "all" with a success rate above 0.6.
C23_ThresholdBindsAllBranch ==
  ret.op = "discover_from_row" /\ ret.cross_ran =>
    LET domain == RequirementOf(ret).domain
        rules == Rows(db, "InferenceRule")
    IN  {ret.visited[i] : i \in 1..Len(ret.visited)} \cap {rule.id : rule \in rules}
          = {rule.id :
               rule \in {r \in rules :
                           \/ InList(domain, r.domain_applicability)
                           \/ /\ InList("all", r.domain_applicability)
                              /\ r.success_rate > 60}}

\* C23 at work: a visited rule that lists the domain with a success rate of 0.5, next to
\* a stored rule that lists "all" alone with a success rate of 0.6 and was left out, and
\* a visited rule that lists "all" with a success rate of 0.7
C23_LowRateVisitedAllLeftOut ==
  /\ ret.op = "discover_from_row" /\ ret.cross_ran
  /\ InList("RULE_105", ret.visited)
  /\ InList("RULE_004", ret.visited)
  /\ RowsWithId(db, "InferenceRule", "RULE_107") # {}
  /\ ~InList("RULE_107", ret.visited)

\* clamp(x, lo, hi)
Clamp(x, lo, hi) == IF x < lo THEN lo ELSE IF x > hi THEN hi ELSE x

\* C24: the confidence of every stored relationship that names a rule as its source is
\* clamp(confidence_weight * success_rate * m, 0, 1), m being 1.0 when the rule's
\* pattern is a phrase of the requirement's description and 0.7 otherwise (both sides
\* in hundred-thousandths).
C24_ConfidenceByTier ==
  \A e \in Rows(db, "IMPLIES") :
    Len(e.inference_path[2]) = 1 =>
      \A rule \in RowsWithId(db, "InferenceRule", e.inference_path[2][1]),
         requirement \in RowsWithId(db, "BusinessRequirement", e.from) :
        LET m == IF PhraseTier(Lower(Chars(rule.condition_pattern)),
                               Lower(Chars(requirement.description)))
                   THEN 10 ELSE 7
        IN  e.confidence * 10
              = Clamp(rule.confidence_weight * rule.success_rate * m, 0, 100000)

\* C25: for a requirement complexity among low, medium, high and very_high and a
\* confidence in [0,1], the inferred complexity is not below the requirement's.
C25_ComplexityNeverLowered ==
  ret.op = "_infer_complexity" /\ InList(ret.arg, ComplexityOrder) =>
    /\ InList(ret.value, ComplexityOrder)
    /\ ComplexityRank(ret.value) >= ComplexityRank(ret.arg)

\* C25 at work: the lowest confidence that raises a medium requirement to high
C25_MediumRaisedToHigh ==
  /\ ret.op = "_infer_complexity"
  /\ ret.arg = "medium" /\ ret.target = 71
  /\ ret.value = "high"

\* The descriptions of HourDescriptions that hold each word, in any case
WithAutomation ==
  { "automation", "AUTOMATION", "pre-automations",
    "automation machine learning", "AUTOMATION MACHINE LEARNING",
    "pre-automation machine learnings",
    "automation real-time", "AUTOMATION REAL-TIME", "pre-automation real-times",
    "automation machine learning real-time", "AUTOMATION MACHINE LEARNING REAL-TIME",
    "pre-automation machine learning real-times" }

WithMachineLearning ==
  { "machine learning", "Machine Learning", "pre-machine learnings",
    "automation machine learning", "AUTOMATION MACHINE LEARNING",
    "pre-automation machine learnings",
    "machine learning real-time", "Machine Learning Real-Time",
    "pre-machine learning real-times",
    "automation machine learning real-time", "AUTOMATION MACHINE LEARNING REAL-TIME",
    "pre-automation machine learning real-times" }

WithRealTime ==
  { "real-time", "Real-Time", "pre-real-times",
    "automation real-time", "AUTOMATION REAL-TIME", "pre-automation real-times",
    "machine learning real-time", "Machine Learning Real-Time",
    "pre-machine learning real-times",
    "automation machine learning real-time", "AUTOMATION MACHINE LEARNING REAL-TIME",
    "pre-automation machine learning real-times" }

\* C26: the hours are the base hours of the complexity (80, 160, 320, 480) times 1.3
\* with "automation", times 1.4 with "machine learning" and times 1.2 with "real-time"
\* in the description, every factor that applies taken, the product truncated.
C26_HoursAreTruncatedProduct ==
  ret.op = "_estimate_hours" /\ InList(ret.target, ComplexityOrder) =>
    LET base == CASE ret.target = "low" -> 80
                  [] ret.target = "medium" -> 160
                  [] ret.target = "high" -> 320
                  [] ret.target = "very_high" -> 480
        a == IF ret.arg \in WithAutomation THEN 13 ELSE 10
        m == IF ret.arg \in WithMachineLearning THEN 14 ELSE 10
        r == IF ret.arg \in WithRealTime THEN 12 ELSE 10
    IN  ret.value = (base * a * m * r) \div 1000

\* C26 at work: two surcharges on a medium requirement, 160 * 1.3 * 1.2 = 249.6
\* returned as 249
C26_TwoSurchargesTruncated ==
  /\ ret.op = "_estimate_hours"
  /\ ret.arg = "AUTOMATION REAL-TIME" /\ ret.target = "medium"
  /\ ret.value = 249

\* The entity ids of the data, ascending
EntityIdOrder == <<"ENT_001", "ENT_002", "ENT_003", "ENT_004", "ENT_005">>

\* C27: a discovery that completes visits the gate-passing entities in ascending order
\* of their ids, the first five of them at most.
C27_EntitiesInIdOrder ==
  ret.op = "discover_from_row" /\ Completed(ret) =>
    LET domain == RequirementOf(ret).domain
        Passing(id) ==
          \E entity \in RowsWithId(db, "DomainEntity", id) : PassesGate(entity, domain)
        passing == SelectSeq(EntityIdOrder, Passing)
        IsEntityId(id) == InList(id, EntityIdOrder)
    IN  SelectSeq(ret.visited, IsEntityId)
          = SubSeq(passing, 1, Min(CrossDomainLimit, Len(passing)))

\* The cross-domain opportunities of a returned list, in their order
CrossBased(value) ==
  LET IsCrossBased(o) == o.discovery_method = "cross_domain"
  IN  SelectSeq(value, IsCrossBased)

\* C28: in the list one discovery returns, the k-th rule-based opportunity has the id
\* of the requirement, the tag OPP and the counter k, the k-th cross-domain one the id
\* of the requirement, the tag CROSS and the counter k, and no two entries share an id.
C28_CountersWithoutGaps ==
  ret.op = "discover_from_row" =>
    /\ \A k \in 1..Len(RuleBased(ret.value)) :
         RuleBased(ret.value)[k].id = <<ret.arg, "OPP", k>>
    /\ \A k \in 1..Len(CrossBased(ret.value)) :
         CrossBased(ret.value)[k].id = <<ret.arg, "CROSS", k>>
    /\ \A i, j \in 1..Len(ret.value) :
         i # j => ret.value[i].id # ret.value[j].id

\* C28 at work: a list of two rule-based opportunities and a cross-domain one, returned
\* by a discovery that visited a rule between the two that matched
C28_TwoRuleBasedOneCross ==
  /\ ret.op = "discover_from_row"
  /\ Len(RuleBased(ret.value)) = 2
  /\ Len(CrossBased(ret.value)) = 1
  /\ \E i \in 1..Len(ret.visited) :
       /\ ret.visited[i] = "RULE_001"
       /\ \E h \in 1..(i - 1) : ret.visited[h] = "RULE_106"
       /\ \E j \in (i + 1)..Len(ret.visited) : ret.visited[j] = "RULE_105"

\* C29: a discovery for the id of a stored requirement can reach the cross-domain
\* step, and does when the store answers every statement: among the outcomes of the
\* call there is one that went through the rule loop and the cross-domain step.
C29_StoredRequirementReachesLoops ==
  [][(/\ ret'.op = "discover_implicit_opportunities"
      /\ RowsWithId(db, "BusinessRequirement", ret'.arg) # {})
     => \E out \in discover_implicit_opportunities(db, ret'.arg, now) :
          out.cross_ran]_vars

\* C30: the list a discovery returns is its rule-based opportunities, one for each
\* visited rule that matched and in the order of the visits, followed by its
\* cross-domain opportunities, one for each visited entity and in the order of the
\* visits; no rule is visited after an entity.
C30_RuleBasedThenCrossDomain ==
  ret.op = "discover_from_row" =>
    LET description == RequirementOf(ret).description
        Matched(id) ==
          \E rule \in RowsWithId(db, "InferenceRule", id) :
            matches[rule.condition_pattern, description]
        IsEntity(id) == RowsWithId(db, "DomainEntity", id) # {}
        rules == SelectSeq(ret.visited, Matched)
        entities == SelectSeq(ret.visited, IsEntity)
    IN  /\ ret.value = RuleBased(ret.value) \o CrossBased(ret.value)
        /\ Len(RuleBased(ret.value)) = Len(rules)
        /\ \A k \in 1..Len(rules) :
             \E rule \in RowsWithId(db, "InferenceRule", rules[k]) :
               RuleBased(ret.value)[k].description = <<rule.conclusion_template>>
        /\ Len(CrossBased(ret.value)) = Len(entities)
        /\ \A k \in 1..Len(entities) :
             \E entity \in RowsWithId(db, "DomainEntity", entities[k]) :
               CrossBased(ret.value)[k].description[2] = entity.industry
        /\ \A i, j \in 1..Len(ret.visited) :
             IsEntity(ret.visited[i]) /\ ~IsEntity(ret.visited[j]) => j < i

\* C30 at work: the opportunities of RULE_106 and of RULE_105, in the order the rules
\* were visited, and then the one of ENT_002
C30_TwoRulesThenEntity ==
  /\ ret.op = "discover_from_row"
  /\ Len(ret.value) = 3
  /\ ret.value[1].description = <<"machine learning">>
  /\ ret.value[2].description = <<"automation real-time">>
  /\ ret.value[3].discovery_method = "cross_domain"
  /\ ret.value[3].description[2] = "retail"

=============================================================================
